---- MODULE Spec2Model ----
(***************************************************************************)
(* Oware Abapa: the rules (prototype/oware.py), the precomputed tables     *)
(* (util/machinery.py) and the iterative deepening engine                  *)
(* (prototype/engine.py).                                                  *)
(*                                                                         *)
(* A board is a function 0..13 -> Nat: houses 0..5 belong to SOUTH, houses *)
(* 6..11 to NORTH, 12 is SOUTH's store and 13 is NORTH's store.            *)
(***************************************************************************)
EXTENDS Integers, Sequences, FiniteSets, TLC

VARIABLES
    board,      \* the current board of the game being played
    turn,       \* the side to move on board
    prev,       \* the board the last move was played on
    move,       \* the last move played (NULL_MOVE before any move)
    ply,        \* number of moves played so far
    phase,      \* which family of runs this is: "game", "input", "moved",
                \* "position", "engine", "calls", "config", "text", "parsed"
    aborted,    \* Engine._aborted
    timer,      \* the threading.Timer of the current compute_best_move
    stale,      \* a Timer of an earlier call can still run its function
    move_time,  \* Engine._move_time, in seconds
    line,       \* the keys of Engine._line
    cfg_depth,  \* Engine._depth
    history,    \* the positions argument of compute_best_move
    root,       \* the locals of compute_best_move and its program counter
    stack,      \* the frames of the running _search calls, innermost last
    ret,        \* the value returned by the _search call that just ended
    result,     \* how compute_best_move ended
    notation,   \* the argument of Oware.to_moves, a sequence of characters
    parsed      \* how Oware.to_moves ended

gameVars == <<board, turn, prev, move, ply, phase>>
apiVars == <<stale, move_time, notation, parsed>>
engineVars == <<aborted, timer, line, cfg_depth, history, root, stack, ret,
                result, apiVars>>
vars == <<board, turn, prev, move, ply, phase, aborted, timer, line,
          cfg_depth, history, root, stack, ret, result, stale, move_time,
          notation, parsed>>

----------------------------------------------------------------------------
(* Bounds of the model *)

MaxPly == 5         \* plies played from the initial board
MaxRowSeeds == 6    \* seeds in the arbitrary row of an input board
MaxSow == 34        \* seeds in the single house of the mover's row
MaxFeed == 2        \* seeds in the single house facing the side to move
MaxReplies == 1     \* moves played from an input position
MaxBoardSeeds == 3  \* seeds on the board of a root position of the engine
MaxSpan == 3        \* houses on each side of the border that hold them
MaxDepth == 6       \* largest configured depth of a modelled search
MaxCallSeeds == 2   \* seeds on the board when the engine is called repeatedly
MaxConfig == 12     \* largest magnitude of a value given to a setter
MaxLen == 3         \* characters in a moves notation

----------------------------------------------------------------------------
(* Oware constants *)

SOUTH == 1
NORTH == -1
DRAW == 0
NULL_MOVE == -1
None == 99          \* get_winner's None: the match has not ended
Seeds == 48

Houses == 0 .. 11
SouthRow == 0 .. 5
NorthRow == 6 .. 11

Row(t) == IF t = SOUTH THEN SouthRow ELSE NorthRow
Side(m) == IF m < 6 THEN SOUTH ELSE NORTH
Store(t) == IF t = SOUTH THEN 12 ELSE 13

\* sum(board[0:6]) and sum(board[6:12])
SouthSum(b) == b[0] + b[1] + b[2] + b[3] + b[4] + b[5]
NorthSum(b) == b[6] + b[7] + b[8] + b[9] + b[10] + b[11]

BoardSum(b) == SouthSum(b) + NorthSum(b) + b[12] + b[13]

\* _EMPTY_ROW as a tuple of another length, which no row ever equals
_EMPTY_ROW_Never(b, t) == FALSE

\* board[0:6] or board[6:12] equals _EMPTY_ROW
_EMPTY_ROW(b, t) == \A h \in Row(t) : b[h] = 0

----------------------------------------------------------------------------
(* Tables (util/machinery.py) *)

\* SEED_DRILL with a sowing order that starts at the source house
SEED_DRILL_FromSource(m, k) == (m + (k % 11)) % 12

\* SEED_DRILL[m][k], k = 0..47: the houses after m in sowing order, m skipped
SEED_DRILL(m, k) == (m + 1 + (k % 11)) % 12

\* HARVESTER with chains that run on into the other row, down to house 0
HARVESTER_AcrossRows(h) == [i \in 1 .. h + 1 |-> h + 1 - i]

\* HARVESTER[h]: h, h-1, ... down to the first house of h's row
HARVESTER(h) ==
    IF h < 6 THEN [i \in 1 .. h + 1 |-> h + 1 - i]
    ELSE [i \in 1 .. h - 5 |-> h + 1 - i]

\* seeds is a key of REAPER[m]: the last seed lands in the opponent's row
REAPER_has(m, seeds) ==
    /\ seeds \in 1 .. 33
    /\ LET last == SEED_DRILL(m, seeds - 1)
       IN  ~ ((6 > last) /= (m > 5))

REAPER_last(m, seeds) == SEED_DRILL(m, seeds - 1)

\* row (a sequence of 6 values) is a key of the positions dictionary
\* stored at REAPER[m][seeds]
REAPER_positions(m, seeds, row) ==
    LET last == SEED_DRILL(m, seeds - 1)
        n == IF last > 5 THEN last - 6 ELSE last
    IN  IF seeds < 12
        THEN /\ \A i \in 1 .. n + 1 : row[i] \in {1, 2}
             /\ \A i \in n + 2 .. 6 : row[i] = 0
        ELSE IF last = 11 \/ last = 5
        THEN IF seeds < 23
             THEN /\ \A i \in 1 .. n + 1 : row[i] \in {0, 1}
                  /\ \A i \in n + 2 .. 6 : row[i] = 0
             ELSE \A i \in 1 .. 6 : row[i] = 0
        ELSE FALSE

----------------------------------------------------------------------------
(* Rules (prototype/oware.py) *)

get_initial_board == [i \in 0 .. 13 |-> IF i < 12 THEN 4 ELSE 0]

\* board[6:12] or board[0:6] as a sequence of six values
RowSlice(b, t) == [i \in 1 .. 6 |-> b[IF t = SOUTH THEN i - 1 ELSE i + 5]]

\* get_final_board gathering the rows without adding them to the stores
get_final_board_DropStores(b) ==
    IF b[12] > 24 \/ b[13] > 24 THEN b
    ELSE IF b[12] = 24 /\ b[13] = 24 THEN b
    ELSE [i \in 0 .. 13 |->
            IF i = 12 THEN SouthSum(b)
            ELSE IF i = 13 THEN NorthSum(b)
            ELSE 0]

get_final_board(b) ==
    IF b[12] > 24 \/ b[13] > 24 THEN b
    ELSE IF b[12] = 24 /\ b[13] = 24 THEN b
    ELSE [i \in 0 .. 13 |->
            IF i = 12 THEN SouthSum(b) + b[12]
            ELSE IF i = 13 THEN NorthSum(b) + b[13]
            ELSE 0]

\* has_legal_moves with the feeding test off by one (>= for >)
has_legal_moves_OffByOne(b, t) ==
    IF t = SOUTH
    THEN /\ ~ _EMPTY_ROW(b, SOUTH)
         /\ \/ ~ _EMPTY_ROW(b, NORTH)
            \/ \E house \in SouthRow : 0 < b[house] /\ b[house] >= 5 - house
    ELSE /\ ~ _EMPTY_ROW(b, NORTH)
         /\ \/ ~ _EMPTY_ROW(b, SOUTH)
            \/ \E house \in NorthRow : 0 < b[house] /\ b[house] >= 11 - house

has_legal_moves(b, t) ==
    IF t = SOUTH
    THEN /\ ~ _EMPTY_ROW(b, SOUTH)
         /\ \/ ~ _EMPTY_ROW(b, NORTH)
            \/ \E house \in SouthRow : 0 < b[house] /\ b[house] > 5 - house
    ELSE /\ ~ _EMPTY_ROW(b, NORTH)
         /\ \/ ~ _EMPTY_ROW(b, SOUTH)
            \/ \E house \in NorthRow : 0 < b[house] /\ b[house] > 11 - house

get_winner(b, t) ==
    IF b[12] > 24 THEN SOUTH
    ELSE IF b[13] > 24 THEN NORTH
    ELSE IF ~ has_legal_moves(b, t)
    THEN LET cboard == get_final_board(b)
         IN  IF cboard[12] > cboard[13] THEN SOUTH
             ELSE IF cboard[12] < cboard[13] THEN NORTH
             ELSE DRAW
    ELSE None

\* is_capture without the lookup of the opponent's row in the positions
is_capture_NoLookup(b, m) ==
    /\ REAPER_has(m, b[m])
    /\ LET last == REAPER_last(m, b[m])
       IN  /\ ~ (b[last] > 2)
           /\ \/ (b[last] = 0) /= (b[m] < 12)
              \/ (11 < b[m] /\ b[m] < 23 /\ b[last] = 1)

is_capture(b, m) ==
    /\ REAPER_has(m, b[m])
    /\ LET last == REAPER_last(m, b[m])
       IN  /\ ~ (b[last] > 2)
           /\ \/ (b[last] = 0) /= (b[m] < 12)
              \/ (11 < b[m] /\ b[m] < 23 /\ b[last] = 1)
           /\ ~ REAPER_positions(m, b[m], RowSlice(b, -Side(m)))

is_end(b, t) ==
    IF b[12] > 24 \/ b[13] > 24 THEN TRUE
    ELSE IF has_legal_moves(b, t) THEN FALSE
    ELSE TRUE

get_score(b) == b[12] - b[13]

\* get_final_score counting a swept 24 as a win of SOUTH
get_final_score_NoDraw(b) ==
    IF b[12] > 24 THEN 10000
    ELSE IF b[13] > 24 THEN -10000
    ELSE LET score == SouthSum(b) + b[12]
         IN  IF score >= 24 THEN 10000 ELSE -10000

get_final_score(b) ==
    IF b[12] > 24 THEN 10000
    ELSE IF b[13] > 24 THEN -10000
    ELSE LET score == SouthSum(b) + b[12]
         IN  IF score > 24 THEN 10000
             ELSE IF score < 24 THEN -10000
             ELSE 0

\* the sowing loop of compute_board from the k-th entry of
\* SEED_DRILL[m][:n] on: every house of the slice receives one seed
RECURSIVE SowLoop(_, _, _, _)
SowLoop(new_board, m, k, n) ==
    IF k >= n THEN new_board
    ELSE SowLoop([new_board EXCEPT ![SEED_DRILL(m, k)] = @ + 1], m, k + 1, n)

\* the length of SEED_DRILL[m][:seeds]: a row of the table has 48 entries
DrillLen(seeds) == IF seeds > 48 THEN 48 ELSE seeds

\* sowing without new_board[move] = 0
Sow_KeepSource(b, m) == SowLoop(b, m, 0, DrillLen(b[m]))

\* new_board after the sowing loop of compute_board: the source house is
\* emptied, then its seeds are sown
Sow(b, m) == SowLoop([b EXCEPT ![m] = 0], m, 0, DrillLen(b[m]))

\* the gathering loop of compute_board over HARVESTER[house], from its
\* i-th entry on: stops at the first house not holding 2 or 3 seeds
RECURSIVE Gather(_, _, _, _)
Gather(bc, chain, i, store) ==
    IF i > Len(chain) THEN bc
    ELSE LET house == chain[i]
         IN  IF ~ (4 > bc[house] /\ bc[house] > 1) THEN bc
             ELSE Gather([bc EXCEPT ![store] = bc[store] + bc[house],
                                    ![house] = 0],
                         chain, i + 1, store)

\* compute_board keeping a capture that empties the opponent's row
compute_board_GrandSlam(b, m) ==
    LET new_board == Sow(b, m)
        house == SEED_DRILL(m, b[m] - 1)
    IN  IF 4 > new_board[house] /\ new_board[house] > 1
        THEN IF m < 6 /\ house > 5
             THEN Gather(new_board, HARVESTER(house), 1, 12)
             ELSE IF m > 5 /\ house < 6
             THEN Gather(new_board, HARVESTER(house), 1, 13)
             ELSE new_board
        ELSE new_board

compute_board(b, m) ==
    LET new_board == Sow(b, m)
        house == SEED_DRILL(m, b[m] - 1)
    IN  IF 4 > new_board[house] /\ new_board[house] > 1
        THEN IF m < 6 /\ house > 5
             THEN LET board_copy == Gather(new_board, HARVESTER(house), 1, 12)
                  IN  IF ~ _EMPTY_ROW(board_copy, NORTH) THEN board_copy
                      ELSE new_board
             ELSE IF m > 5 /\ house < 6
             THEN LET board_copy == Gather(new_board, HARVESTER(house), 1, 13)
                  IN  IF ~ _EMPTY_ROW(board_copy, SOUTH) THEN board_copy
                      ELSE new_board
             ELSE new_board
        ELSE new_board

\* CaptureOrder from the first house of the row to the last
CaptureOrder_Ascending(t) ==
    IF t = SOUTH THEN <<0, 1, 2, 3, 4, 5>> ELSE <<6, 7, 8, 9, 10, 11>>

\* the houses of t's row in the order of the loops that yield the
\* captures (xlegal_moves and xdisruptive_moves)
CaptureOrder(t) ==
    IF t = SOUTH THEN <<5, 4, 3, 2, 1, 0>> ELSE <<11, 10, 9, 8, 7, 6>>

\* xlegal_moves yielding every house with seeds when the opponent's row
\* is empty
xlegal_moves_NoFeed(b, t) ==
    IF t = SOUTH
    THEN SelectSeq(<<5, 4, 3, 2, 1, 0>>,
                LAMBDA m : 0 < b[m] /\ b[m] > 5 - m /\ is_capture(b, m))
         \o SelectSeq(<<0, 1, 2, 3, 4, 5>>,
                   LAMBDA m : 0 < b[m] /\ ~ is_capture(b, m))
    ELSE SelectSeq(<<11, 10, 9, 8, 7, 6>>,
                LAMBDA m : 0 < b[m] /\ b[m] > 11 - m /\ is_capture(b, m))
         \o SelectSeq(<<6, 7, 8, 9, 10, 11>>,
                   LAMBDA m : 0 < b[m] /\ ~ is_capture(b, m))

xlegal_moves(b, t) ==
    IF t = SOUTH
    THEN SelectSeq(CaptureOrder(SOUTH),
                LAMBDA m : 0 < b[m] /\ b[m] > 5 - m /\ is_capture(b, m))
         \o (IF ~ _EMPTY_ROW(b, NORTH)
             THEN SelectSeq(<<0, 1, 2, 3, 4, 5>>,
                         LAMBDA m : 0 < b[m] /\ b[m] < 3 /\ ~ is_capture(b, m))
                  \o SelectSeq(<<0, 1, 2, 3, 4, 5>>,
                            LAMBDA m : b[m] > 2 /\ ~ is_capture(b, m))
             ELSE SelectSeq(<<0, 1, 2, 3, 4, 5>>,
                         LAMBDA m : 0 < b[m] /\ b[m] > 5 - m
                                    /\ ~ is_capture(b, m)))
    ELSE SelectSeq(CaptureOrder(NORTH),
                LAMBDA m : 0 < b[m] /\ b[m] > 11 - m /\ is_capture(b, m))
         \o (IF ~ _EMPTY_ROW(b, SOUTH)
             THEN SelectSeq(<<6, 7, 8, 9, 10, 11>>,
                         LAMBDA m : 0 < b[m] /\ b[m] < 3 /\ ~ is_capture(b, m))
                  \o SelectSeq(<<6, 7, 8, 9, 10, 11>>,
                            LAMBDA m : b[m] > 2 /\ ~ is_capture(b, m))
             ELSE SelectSeq(<<6, 7, 8, 9, 10, 11>>,
                         LAMBDA m : 0 < b[m] /\ b[m] > 11 - m
                                    /\ ~ is_capture(b, m)))

\* xdisruptive_moves without the test of is_capture
xdisruptive_moves_NoCaptureTest(b, t) ==
    SelectSeq(CaptureOrder(t),
              LAMBDA m : 0 < b[m] /\ b[m] > (IF t = SOUTH THEN 5 ELSE 11) - m)

\* Oware.xdisruptive_moves: the legal moves that capture
xdisruptive_moves(b, t) ==
    SelectSeq(CaptureOrder(t),
              LAMBDA m : /\ 0 < b[m]
                         /\ b[m] > (IF t = SOUTH THEN 5 ELSE 11) - m
                         /\ is_capture(b, m))

SeqToSet(s) == {s[i] : i \in 1 .. Len(s)}

----------------------------------------------------------------------------
(* Engine (prototype/engine.py): constants and the state after __init__ *)

INFINITY == 1000
MIN_DEPTH == 4
InitialDepth == 126
UNBOUND == -99      \* a local variable that has not been assigned yet

\* the locals of compute_best_move before the call
RootIdle ==
    [pc |-> "idle", moves |-> <<>>, idx |-> 0, depth |-> UNBOUND,
     alpha |-> UNBOUND, best_move |-> UNBOUND, best_score |-> UNBOUND,
     last_move |-> UNBOUND, last_score |-> UNBOUND]

NoReturn == [value |-> 0, short |-> FALSE]
NoResult == [status |-> "none", move |-> UNBOUND]
InitialMoveTime == 2
NoParse == [status |-> "none", moves |-> <<>>]

\* Engine.__init__
EngineInit ==
    /\ aborted = FALSE
    /\ timer = "none"
    /\ stale = FALSE
    /\ move_time = InitialMoveTime
    /\ line = {}
    /\ cfg_depth = InitialDepth
    /\ history = {}
    /\ root = RootIdle
    /\ stack = <<>>
    /\ ret = NoReturn
    /\ result = NoResult

\* no notation has been given to to_moves
TextInit ==
    /\ notation = <<>>
    /\ parsed = NoParse

----------------------------------------------------------------------------
(* A game played from the initial board by legal moves, sides alternating *)

InitGame ==
    /\ board = get_initial_board
    /\ turn = SOUTH
    /\ prev = get_initial_board
    /\ move = NULL_MOVE
    /\ ply = 0
    /\ phase = "game"
    /\ EngineInit
    /\ TextInit

\* the side to move plays one of its legal moves
PlayMove ==
    /\ phase = "game"
    /\ ply < MaxPly
    /\ ~ is_end(board, turn)
    /\ \E m \in SeqToSet(xlegal_moves(board, turn)) :
          /\ board' = compute_board(board, m)
          /\ prev' = board
          /\ move' = m
    /\ turn' = -turn
    /\ ply' = ply + 1
    /\ UNCHANGED phase
    /\ UNCHANGED engineVars

NextGame == PlayMove

SpecGame == InitGame /\ [][NextGame]_vars

----------------------------------------------------------------------------
(* The rules applied to input boards. One row is arbitrary, the other    *)
(* row holds a single house with seeds, the stores hold the rest.         *)

\* the arbitrary rows: six houses holding at most MaxRowSeeds seeds together
InputRows ==
    {row \in [0 .. 5 -> 0 .. MaxRowSeeds] :
        row[0] + row[1] + row[2] + row[3] + row[4] + row[5] <= MaxRowSeeds}

RowSeeds(row) == row[0] + row[1] + row[2] + row[3] + row[4] + row[5]

InputBoard(big, s, row, south) ==
    [i \in 0 .. 13 |->
        IF i = big THEN s
        ELSE IF i < 12 /\ Side(i) /= Side(big)
        THEN row[IF i < 6 THEN i ELSE i - 6]
        ELSE IF i = 12 THEN south
        ELSE IF i = 13 THEN Seeds - s - RowSeeds(row) - south
        ELSE 0]

\* a board outside that family: one seed in house 5, one in house 6 and
\* nothing else, stores included
ImmediateCapture == [i \in 0 .. 13 |-> IF i \in {5, 6} THEN 1 ELSE 0]

\* the side of the big house is to move: compute_board from that house
InitBoards ==
    /\ \/ \E big \in Houses, s \in 1 .. MaxSow, row \in InputRows :
             /\ board = InputBoard(big, s, row,
                                   (Seeds - s - RowSeeds(row)) \div 2)
             /\ turn = Side(big)
       \/ /\ board = ImmediateCapture
          /\ turn = SOUTH
    /\ prev = board
    /\ move = NULL_MOVE
    /\ ply = 0
    /\ phase = "input"
    /\ EngineInit
    /\ TextInit

\* compute_board(board, m) for a house of the mover's row that holds seeds
Move ==
    /\ phase = "input"
    /\ \E m \in Row(turn) :
          /\ board[m] > 0
          /\ board' = compute_board(board, m)
          /\ prev' = board
          /\ move' = m
    /\ turn' = -turn
    /\ ply' = ply + 1
    /\ phase' = "moved"
    /\ UNCHANGED engineVars

NextBoards == Move

SpecBoards == InitBoards /\ [][NextBoards]_vars

----------------------------------------------------------------------------
(* The rules applied to positions. The row of the side to move is         *)
(* arbitrary, the other row holds at most one house with seeds and the    *)
(* stores split the rest in several ways.                                 *)

\* the ways the seeds off the board are split between the stores
StoreSplits(rest) == {0, rest \div 2, rest}

InitPositions ==
    /\ \E big \in Houses, s \in 0 .. MaxFeed, row \in InputRows :
          /\ \E south \in StoreSplits(Seeds - s - RowSeeds(row)) :
                board = InputBoard(big, s, row, south)
          /\ turn = -Side(big)
    /\ prev = board
    /\ move = NULL_MOVE
    /\ ply = 0
    /\ phase = "position"
    /\ EngineInit
    /\ TextInit

\* the side to move plays a move yielded by xlegal_moves
PlayLegal ==
    /\ phase = "position"
    /\ ply < MaxReplies
    /\ ~ is_end(board, turn)
    /\ \E m \in SeqToSet(xlegal_moves(board, turn)) :
          /\ board' = compute_board(board, m)
          /\ prev' = board
          /\ move' = m
    /\ turn' = -turn
    /\ ply' = ply + 1
    /\ UNCHANGED phase
    /\ UNCHANGED engineVars

\* get_final_board applied to the current board, ended or not, and to its
\* own result
Finish ==
    /\ phase \in {"position", "final"}
    /\ board' = get_final_board(board)
    /\ prev' = board
    /\ phase' = "final"
    /\ UNCHANGED <<turn, move, ply>>
    /\ UNCHANGED engineVars

NextPositions ==
    \/ PlayLegal
    \/ Finish

SpecPositions == InitPositions /\ [][NextPositions]_vars

----------------------------------------------------------------------------
(* The engine searching a root position while the timer and               *)
(* stop_computation may set the abort flag at any instant                 *)

SpanHouses == (6 - MaxSpan) .. (5 + MaxSpan)

RECURSIVE SpanSum(_, _)
SpanSum(f, S) ==
    IF S = {} THEN 0
    ELSE LET h == CHOOSE x \in S : TRUE IN f[h] + SpanSum(f, S \ {h})

\* the houses of the root positions: few seeds, all close to the border
EngineRows ==
    {f \in [SpanHouses -> 0 .. MaxBoardSeeds] :
        SpanSum(f, SpanHouses) <= MaxBoardSeeds}

EngineBoard(f, south) ==
    [i \in 0 .. 13 |->
        IF i \in SpanHouses THEN f[i]
        ELSE IF i = 12 THEN south
        ELSE IF i = 13 THEN Seeds - SpanSum(f, SpanHouses) - south
        ELSE 0]

\* the root positions: the stores share the captured seeds evenly
EngineBoards ==
    UNION {{EngineBoard(f, (Seeds - SpanSum(f, SpanHouses)) \div 2),
            EngineBoard(f, (Seeds - SpanSum(f, SpanHouses) + 1) \div 2)} :
           f \in EngineRows}

\* the positions one legal move after position p
Successors(p) ==
    IF is_end(p[1], p[2]) THEN {}
    ELSE {<<compute_board(p[1], m), -p[2]>> :
            m \in SeqToSet(xlegal_moves(p[1], p[2]))}

\* the game histories handed to compute_best_move: none, or one position
\* that the search will meet one or two plies below the root
Histories(b, t) ==
    {{}} \cup {{p} : p \in Successors(<<b, t>>)
                       \cup UNION {Successors(q) : q \in Successors(<<b, t>>)}}

InitEngine ==
    /\ board \in EngineBoards
    /\ turn \in {SOUTH, NORTH}
    /\ prev = board
    /\ move = NULL_MOVE
    /\ ply = 0
    /\ phase = "engine"
    /\ EngineInit
    /\ TextInit

Top == stack[Len(stack)]
Pop == SubSeq(stack, 1, Len(stack) - 1)
Position(frame) == <<frame.board, frame.turn>>

\* the frame of a call _search(b, t, alpha, beta, depth) about to start
Call(b, t, alpha, beta, depth) ==
    [board |-> b, turn |-> t, alpha |-> alpha, beta |-> beta,
     depth |-> depth, pc |-> "enter", moves |-> <<>>, idx |-> 0]

\* set_depth without the rounding of odd depths
set_depth_NoRounding(depth) ==
    IF depth < MIN_DEPTH THEN MIN_DEPTH ELSE depth

\* Engine.set_depth(depth)
set_depth(depth) ==
    IF depth < MIN_DEPTH THEN MIN_DEPTH ELSE depth + (depth % 2)

SetDepth ==
    /\ phase \in {"engine", "calls", "config"}
    /\ root.pc = "idle"
    /\ \E depth \in (-MaxConfig) .. MaxConfig : cfg_depth' = set_depth(depth)
    /\ UNCHANGED apiVars
    /\ UNCHANGED <<gameVars, aborted, timer, line, history, root, stack, ret,
                   result>>

\* Engine.stop_computation, called from any thread at any time
StopComputation ==
    /\ phase \in {"engine", "calls"}
    /\ ~ aborted
    /\ aborted' = TRUE
    /\ UNCHANGED apiVars
    /\ UNCHANGED <<gameVars, timer, line, cfg_depth, history, root, stack,
                   ret, result>>

\* the timer thread runs stop_computation: the move time has elapsed and
\* the thread found the timer not cancelled (threading.Timer.run), either
\* just now or, for a timer cancelled too late, before the cancellation
TimerFire ==
    /\ phase \in {"engine", "calls"}
    /\ timer \in {"pending", "firing"}
    /\ timer' = "fired"
    /\ aborted' = TRUE
    /\ UNCHANGED apiVars
    /\ UNCHANGED <<gameVars, line, cfg_depth, history, root, stack, ret,
                   result>>

\* compute_best_move, lines 99-116: the flag is reset, the timer started,
\* the line of play filled and the root moves generated
Begin ==
    /\ phase \in {"engine", "calls"}
    /\ root.pc = "idle"
    /\ cfg_depth <= MaxDepth
    /\ \E positions \in Histories(board, turn) :
          /\ history' = positions
          /\ line' = positions
    /\ aborted' = FALSE
    /\ timer' = "pending"
    /\ root' = [RootIdle EXCEPT !.pc = "while",
                                !.moves = xlegal_moves(board, turn),
                                !.depth = MIN_DEPTH,
                                !.alpha = -INFINITY]
    /\ UNCHANGED apiVars
    /\ UNCHANGED <<gameVars, cfg_depth, stack, ret, result>>

\* LoopTest without the test of the abort flag
LoopTest_IgnoreAbort ==
    /\ root.pc = "while"
    /\ IF root.moves = <<>>
       THEN /\ root' = [root EXCEPT !.pc = "done"]
            /\ result' = [status |-> "IndexError", move |-> UNBOUND]
       ELSE /\ root' = [root EXCEPT !.pc = "for", !.idx = 1,
                                    !.best_move = root.moves[1],
                                    !.best_score = -INFINITY]
            /\ UNCHANGED result
    /\ UNCHANGED apiVars
    /\ UNCHANGED <<gameVars, aborted, timer, line, cfg_depth, history, stack,
                   ret>>

\* lines 118-120: the test of the while loop and the start of an iteration
LoopTest ==
    /\ root.pc = "while"
    /\ IF aborted
       THEN /\ root' = [root EXCEPT !.pc = "exit"]
            /\ UNCHANGED result
       ELSE IF root.moves = <<>>
       THEN /\ root' = [root EXCEPT !.pc = "done"]
            /\ result' = [status |-> "IndexError", move |-> UNBOUND]
       ELSE /\ root' = [root EXCEPT !.pc = "for", !.idx = 1,
                                    !.best_move = root.moves[1],
                                    !.best_score = -INFINITY]
            /\ UNCHANGED result
    /\ UNCHANGED apiVars
    /\ UNCHANGED <<gameVars, aborted, timer, line, cfg_depth, history, stack,
                   ret>>

\* lines 122-133: the next root move is applied and its search called
ForNext ==
    /\ root.pc = "for"
    /\ IF root.idx > Len(root.moves)
       THEN /\ root' = [root EXCEPT !.pc = "after_for"]
            /\ UNCHANGED stack
       ELSE /\ root' = [root EXCEPT !.pc = "search"]
            /\ stack' = <<Call(compute_board(board, root.moves[root.idx]),
                               -turn, root.alpha, -root.best_score,
                               root.depth)>>
    /\ UNCHANGED apiVars
    /\ UNCHANGED <<gameVars, aborted, timer, line, cfg_depth, history, ret,
                   result>>

\* SearchEnter without the test of the line of play: a repeated position
\* is expanded like a new one
SearchEnter_NoRepetition ==
    /\ stack /= <<>>
    /\ Top.pc = "enter"
    /\ IF aborted
       THEN /\ ret' = [value |-> -INFINITY, short |-> TRUE]
            /\ stack' = Pop
            /\ UNCHANGED line
       ELSE IF is_end(Top.board, Top.turn)
       THEN /\ ret' = [value |-> Top.turn * get_final_score(Top.board),
                       short |-> FALSE]
            /\ stack' = Pop
            /\ UNCHANGED line
       ELSE IF Top.depth = 0
       THEN /\ ret' = [value |-> Top.turn * get_score(Top.board),
                       short |-> FALSE]
            /\ stack' = Pop
            /\ UNCHANGED line
       ELSE /\ line' = line \cup {Position(Top)}
            /\ stack' = [stack EXCEPT ![Len(stack)] =
                            [Top EXCEPT !.pc = "loop", !.idx = 1,
                                        !.moves = xlegal_moves(Top.board,
                                                               Top.turn)]]
            /\ UNCHANGED ret
    /\ UNCHANGED apiVars
    /\ UNCHANGED <<gameVars, aborted, timer, cfg_depth, history, root, result>>

\* _search, lines 165-179: the abort test, the terminal tests and the
\* insertion of the position into the line of play
SearchEnter ==
    /\ stack /= <<>>
    /\ Top.pc = "enter"
    /\ IF aborted
       THEN /\ ret' = [value |-> -INFINITY, short |-> TRUE]
            /\ stack' = Pop
            /\ UNCHANGED line
       ELSE IF is_end(Top.board, Top.turn) \/ Position(Top) \in line
       THEN /\ ret' = [value |-> Top.turn * get_final_score(Top.board),
                       short |-> FALSE]
            /\ stack' = Pop
            /\ UNCHANGED line
       ELSE IF Top.depth = 0
       THEN /\ ret' = [value |-> Top.turn * get_score(Top.board),
                       short |-> FALSE]
            /\ stack' = Pop
            /\ UNCHANGED line
       ELSE /\ line' = line \cup {Position(Top)}
            /\ stack' = [stack EXCEPT ![Len(stack)] =
                            [Top EXCEPT !.pc = "loop", !.idx = 1,
                                        !.moves = xlegal_moves(Top.board,
                                                               Top.turn)]]
            /\ UNCHANGED ret
    /\ UNCHANGED apiVars
    /\ UNCHANGED <<gameVars, aborted, timer, cfg_depth, history, root, result>>

\* SearchLoop handing its own window to the call instead of the negated,
\* swapped one
SearchLoop_SameWindow ==
    /\ stack /= <<>>
    /\ Top.pc = "loop"
    /\ IF Top.idx > Len(Top.moves)
       THEN /\ line' = line \ {Position(Top)}
            /\ ret' = [value |-> Top.alpha, short |-> FALSE]
            /\ stack' = Pop
       ELSE /\ stack' = Append([stack EXCEPT ![Len(stack)].pc = "wait"],
                               Call(compute_board(Top.board,
                                                  Top.moves[Top.idx]),
                                    -Top.turn, Top.alpha, Top.beta,
                                    Top.depth - 1))
            /\ UNCHANGED <<line, ret>>
    /\ UNCHANGED apiVars
    /\ UNCHANGED <<gameVars, aborted, timer, cfg_depth, history, root, result>>

\* _search, lines 181-190 and 199-201: the next move is applied and its
\* search called, or the loop is over and the position leaves the line
SearchLoop ==
    /\ stack /= <<>>
    /\ Top.pc = "loop"
    /\ IF Top.idx > Len(Top.moves)
       THEN /\ line' = line \ {Position(Top)}
            /\ ret' = [value |-> Top.alpha, short |-> FALSE]
            /\ stack' = Pop
       ELSE /\ stack' = Append([stack EXCEPT ![Len(stack)].pc = "wait"],
                               Call(compute_board(Top.board,
                                                  Top.moves[Top.idx]),
                                    -Top.turn, -Top.beta, -Top.alpha,
                                    Top.depth - 1))
            /\ UNCHANGED <<line, ret>>
    /\ UNCHANGED apiVars
    /\ UNCHANGED <<gameVars, aborted, timer, cfg_depth, history, root, result>>

\* SearchResume returning from inside the loop at a cutoff, without
\* del self._line[position]
SearchResume_NoDelete ==
    /\ stack /= <<>>
    /\ Top.pc = "wait"
    /\ LET score == -ret.value
       IN  IF score >= Top.beta
           THEN /\ ret' = [value |-> Top.beta, short |-> FALSE]
                /\ stack' = Pop
                /\ UNCHANGED line
           ELSE /\ stack' = [stack EXCEPT ![Len(stack)] =
                               [Top EXCEPT !.pc = "loop",
                                           !.idx = Top.idx + 1,
                                           !.alpha = IF score > Top.alpha
                                                     THEN score
                                                     ELSE Top.alpha]]
                /\ UNCHANGED <<line, ret>>
    /\ UNCHANGED apiVars
    /\ UNCHANGED <<gameVars, aborted, timer, cfg_depth, history, root, result>>

\* _search, lines 184-201: the score of the move just searched is compared
\* with the window; a cutoff leaves the loop, removes the position from
\* the line and returns
SearchResume ==
    /\ stack /= <<>>
    /\ Top.pc = "wait"
    /\ LET score == -ret.value
       IN  IF score >= Top.beta
           THEN /\ line' = line \ {Position(Top)}
                /\ ret' = [value |-> Top.beta, short |-> FALSE]
                /\ stack' = Pop
           ELSE /\ stack' = [stack EXCEPT ![Len(stack)] =
                               [Top EXCEPT !.pc = "loop",
                                           !.idx = Top.idx + 1,
                                           !.alpha = IF score > Top.alpha
                                                     THEN score
                                                     ELSE Top.alpha]]
                /\ UNCHANGED <<line, ret>>
    /\ UNCHANGED apiVars
    /\ UNCHANGED <<gameVars, aborted, timer, cfg_depth, history, root, result>>

\* AbortFallback keeping the best move of the interrupted iteration
AbortFallback_KeepInFlight(r) == r.best_move

\* lines 138-139: the move kept when an iteration is interrupted
AbortFallback(r) ==
    IF r.last_score >= r.best_score THEN r.last_move ELSE r.best_move

\* RootGot without the test of the abort flag: the score of an interrupted
\* search is compared like any other
RootGot_NoFallback ==
    /\ root.pc = "search"
    /\ stack = <<>>
    /\ LET score == -ret.value
       IN  root' = [root EXCEPT
                      !.pc = "for",
                      !.idx = root.idx + 1,
                      !.best_move = IF score > root.best_score
                                    THEN root.moves[root.idx]
                                    ELSE root.best_move,
                      !.best_score = IF score > root.best_score
                                     THEN score
                                     ELSE root.best_score]
    /\ UNCHANGED apiVars
    /\ UNCHANGED <<gameVars, aborted, timer, line, cfg_depth, history, stack,
                   ret, result>>

\* lines 127-146: the score of the root move just searched; an abort seen
\* above the minimal depth ends the iteration
RootGot ==
    /\ root.pc = "search"
    /\ stack = <<>>
    /\ LET score == -ret.value
       IN  IF aborted /\ root.depth > MIN_DEPTH
           THEN root' = [root EXCEPT
                           !.pc = "after_for",
                           !.best_move = AbortFallback(root)]
           ELSE root' = [root EXCEPT
                           !.pc = "for",
                           !.idx = root.idx + 1,
                           !.best_move = IF score > root.best_score
                                         THEN root.moves[root.idx]
                                         ELSE root.best_move,
                           !.best_score = IF score > root.best_score
                                          THEN score
                                          ELSE root.best_score]
    /\ UNCHANGED apiVars
    /\ UNCHANGED <<gameVars, aborted, timer, line, cfg_depth, history, stack,
                   ret, result>>

\* AfterFor stopping only above the configured depth (> for >=)
AfterFor_StrictTest ==
    /\ root.pc = "after_for"
    /\ IF root.depth > cfg_depth
       THEN root' = [root EXCEPT !.pc = "exit"]
       ELSE root' = [root EXCEPT !.pc = "while",
                                 !.last_move = root.best_move,
                                 !.last_score = root.best_score,
                                 !.depth = root.depth + 2]
    /\ UNCHANGED apiVars
    /\ UNCHANGED <<gameVars, aborted, timer, line, cfg_depth, history, stack,
                   ret, result>>

\* lines 148-155: the end of an iteration
AfterFor ==
    /\ root.pc = "after_for"
    /\ IF root.depth >= cfg_depth
       THEN root' = [root EXCEPT !.pc = "exit"]
       ELSE root' = [root EXCEPT !.pc = "while",
                                 !.last_move = root.best_move,
                                 !.last_score = root.best_score,
                                 !.depth = root.depth + 2]
    /\ UNCHANGED apiVars
    /\ UNCHANGED <<gameVars, aborted, timer, line, cfg_depth, history, stack,
                   ret, result>>

\* lines 157-159: the timer is cancelled and best_move returned; reading
\* a local that was never assigned raises UnboundLocalError. The timer
\* thread tests the cancellation once, when the move time has elapsed, and
\* calls stop_computation afterwards: a cancellation that comes between
\* the two is too late, and the timer is left about to fire.
Exit ==
    /\ root.pc = "exit"
    /\ timer' \in IF timer = "pending" THEN {"cancelled", "firing"}
                  ELSE {timer}
    /\ result' = IF root.best_move = UNBOUND
                 THEN [status |-> "UnboundLocalError", move |-> UNBOUND]
                 ELSE [status |-> "returned", move |-> root.best_move]
    /\ root' = [root EXCEPT !.pc = "done"]
    /\ UNCHANGED apiVars
    /\ UNCHANGED <<gameVars, aborted, line, cfg_depth, history, stack, ret>>

NextEngine ==
    \/ SetDepth
    \/ StopComputation
    \/ TimerFire
    \/ Begin
    \/ LoopTest
    \/ ForNext
    \/ SearchEnter
    \/ SearchLoop
    \/ SearchResume
    \/ RootGot
    \/ AfterFor
    \/ Exit

SpecEngine == InitEngine /\ [][NextEngine]_vars

----------------------------------------------------------------------------
(* The setters of the engine called in any order on an idle engine. The   *)
(* search reads _move_time only to arm the timer, and the runs above let  *)
(* the timer expire at any instant, so set_move_time is left out of them. *)

InitConfig ==
    /\ board = get_initial_board
    /\ turn = SOUTH
    /\ prev = board
    /\ move = NULL_MOVE
    /\ ply = 0
    /\ phase = "config"
    /\ EngineInit
    /\ TextInit

\* Engine.set_move_time(move_time): the value is stored as it is
SetMoveTime ==
    /\ phase = "config"
    /\ root.pc = "idle"
    /\ \E seconds \in (-MaxConfig) .. MaxConfig : move_time' = seconds
    /\ UNCHANGED <<gameVars, aborted, timer, line, cfg_depth, history, root,
                   stack, ret, result, stale, notation, parsed>>

NextConfig ==
    \/ SetDepth
    \/ SetMoveTime

SpecConfig == InitConfig /\ [][NextConfig]_vars

----------------------------------------------------------------------------
(* Oware.to_moves applied to short strings. A character is its code.      *)

Upper == 65 .. 70       \* 'A' .. 'F'
Lower == 97 .. 102      \* 'a' .. 'f'

\* the characters of the input strings: A, F, a, f and G
NotationChars == {65, 70, 97, 102, 71}

Notations == UNION {[1 .. n -> NotationChars] : n \in 0 .. MaxLen}

\* the lengths of the prefixes of s that match x(yx)*y? for the character
\* classes first (x) and second (y)
AlternatingPrefixes(s, first, second) ==
    {e \in 1 .. Len(s) :
        \A i \in 1 .. e : s[i] \in (IF i % 2 = 1 THEN first ELSE second)}

\* re.match(pattern, notation) is not None: the match starts at the first
\* character; the first alternative may end anywhere, the second one is
\* followed by $ and has to reach the end of the string
re_match(s) ==
    \/ AlternatingPrefixes(s, Upper, Lower) /= {}
    \/ Len(s) \in AlternatingPrefixes(s, Lower, Upper)

\* Oware.to_move of one character; any other character raises ValueError
to_move(c) == IF c \in Upper THEN c - 65 ELSE c - 91

to_moves(s) ==
    IF ~ re_match(s)
    THEN [status |-> "ValueError", moves |-> <<>>]
    ELSE IF \E i \in 1 .. Len(s) : s[i] \notin Upper \cup Lower
    THEN [status |-> "ValueError", moves |-> <<>>]
    ELSE [status |-> "returned", moves |-> [i \in 1 .. Len(s) |-> to_move(s[i])]]

InitNotation ==
    /\ board = get_initial_board
    /\ turn = SOUTH
    /\ prev = board
    /\ move = NULL_MOVE
    /\ ply = 0
    /\ phase = "text"
    /\ EngineInit
    /\ notation \in Notations
    /\ parsed = NoParse

ToMoves ==
    /\ phase = "text"
    /\ parsed' = to_moves(notation)
    /\ phase' = "parsed"
    /\ UNCHANGED <<board, turn, prev, move, ply, aborted, timer, line,
                   cfg_depth, history, root, stack, ret, result, stale,
                   move_time, notation>>

NextNotation == ToMoves

SpecNotation == InitNotation /\ [][NextNotation]_vars

----------------------------------------------------------------------------
(* The same engine object asked for a move again and again *)

\* root positions with very few seeds
CallBoards ==
    {b \in EngineBoards : SouthSum(b) + NorthSum(b) <= MaxCallSeeds}

InitCalls ==
    /\ board \in CallBoards
    /\ turn \in {SOUTH, NORTH}
    /\ prev = board
    /\ move = NULL_MOVE
    /\ ply = 0
    /\ phase = "calls"
    /\ EngineInit
    /\ TextInit

\* compute_best_move has ended; its locals are gone and the engine can be
\* called again. A timer that was not cancelled (an exception skipped
\* line 157) or that was cancelled too late is still alive.
CallAgain ==
    /\ phase = "calls"
    /\ root.pc = "done"
    /\ root' = RootIdle
    /\ result' = NoResult
    /\ ret' = NoReturn
    /\ stale' = (stale \/ timer \in {"pending", "firing"})
    /\ timer' = "none"
    /\ UNCHANGED <<gameVars, aborted, line, cfg_depth, history, stack,
                   move_time, notation, parsed>>

\* the timer of an earlier call runs stop_computation
StaleFire ==
    /\ phase = "calls"
    /\ stale
    /\ stale' = FALSE
    /\ aborted' = TRUE
    /\ UNCHANGED <<gameVars, timer, line, cfg_depth, history, root, stack,
                   ret, result, move_time, notation, parsed>>

NextCalls ==
    \/ NextEngine
    \/ CallAgain
    \/ StaleFire

SpecCalls == InitCalls /\ [][NextCalls]_vars

----------------------------------------------------------------------------
(* Properties of the rules *)

\* the house at which a move from m stops being short of the other row
RowEnd(t) == IF t = SOUTH THEN 5 ELSE 11

\* a house of t's row that may be played: it holds seeds and, when the
\* opponent's row is empty, more seeds than its distance to the row's end
Playable(b, t, h) ==
    /\ h \in Row(t)
    /\ b[h] > 0
    /\ (\A o \in Row(-t) : b[o] = 0) => b[h] > RowEnd(t) - h

\* C1: seed conservation. Every board reached from the initial board by
\* legal moves of alternating sides holds 48 seeds, and every legal move at
\* such a board yields a board with the same total.
C1_SeedConservation ==
    /\ BoardSum(board) = 48
    /\ BoardSum(prev) = BoardSum(board)
    /\ LET moves == xlegal_moves(board, turn)
       IN  \A i \in 1 .. Len(moves) :
               BoardSum(compute_board(board, moves[i])) = BoardSum(board)

\* a capture has been played in the game
C1_Witness ==
    /\ phase = "game"
    /\ ply > 0
    /\ board[Store(Side(move))] > prev[Store(Side(move))]
    /\ xlegal_moves(board, turn) /= <<>>

\* C2: capture correctness. For a house m holding seeds, is_capture(b, m)
\* holds exactly when compute_board(b, m) has a strictly larger store for
\* the mover than b.
C2_CaptureCorrectness ==
    move /= NULL_MOVE =>
        (is_capture(prev, move)
            <=> board[Store(Side(move))] > prev[Store(Side(move))])

\* a capture by a move that laps the board
C2_Witness ==
    /\ move /= NULL_MOVE
    /\ prev[move] > 11
    /\ is_capture(prev, move)
    /\ board[Store(Side(move))] > prev[Store(Side(move))]

\* sowing followed by gathering the chain of 2s and 3s backwards from the
\* last sown house, whatever it leaves in the opponent's row
NaiveCapture(b, m) ==
    LET sown == Sow(b, m)
        last == SEED_DRILL(m, b[m] - 1)
    IN  IF Side(last) /= Side(m) /\ sown[last] \in {2, 3}
        THEN Gather(sown, HARVESTER(last), 1, Store(Side(m)))
        ELSE sown

\* C3: no Grand Slam capture. When gathering the chain would leave the
\* opponent's whole row empty, compute_board returns the board obtained by
\* sowing alone; and whenever the mover's store grows, the opponent's row
\* of the result is not all zero.
C3_NoGrandSlam ==
    move /= NULL_MOVE =>
        /\ (\A o \in Row(-Side(move)) : NaiveCapture(prev, move)[o] = 0)
              => /\ board = Sow(prev, move)
                 /\ board[12] = prev[12]
                 /\ board[13] = prev[13]
        /\ board[Store(Side(move))] > prev[Store(Side(move))]
              => \E o \in Row(-Side(move)) : board[o] > 0

\* a refused Grand Slam: the chain would have taken every seed of the row
C3_Witness ==
    /\ move /= NULL_MOVE
    /\ NaiveCapture(prev, move) /= Sow(prev, move)
    /\ \A o \in Row(-Side(move)) : NaiveCapture(prev, move)[o] = 0
    /\ board = Sow(prev, move)

\* C7: legality soundness. Every move yielded by xlegal_moves(b, t) is a
\* house of t's row that holds seeds and, when the opponent's row is
\* empty, holds enough seeds to reach it.
C7_LegalitySoundness ==
    LET moves == xlegal_moves(board, turn)
    IN  \A i \in 1 .. Len(moves) :
            /\ moves[i] \in Row(turn)
            /\ board[moves[i]] > 0
            /\ (\A o \in Row(-turn) : board[o] = 0)
                  => board[moves[i]] > RowEnd(turn) - moves[i]

\* after a move that left the mover's row empty, a move is yielded and a
\* house with seeds is withheld because it falls short
C7_Witness ==
    /\ ply > 0
    /\ \A o \in Row(-turn) : board[o] = 0
    /\ xlegal_moves(board, turn) /= <<>>
    /\ \E h \in Row(turn) :
          /\ board[h] > 0
          /\ h \notin SeqToSet(xlegal_moves(board, turn))

\* C8: has_legal_moves(b, t) holds exactly when some house of t's row is
\* playable, and is_end(b, t) holds exactly when a store exceeds 24 or
\* has_legal_moves(b, t) is false.
C8_HasLegalMoves ==
    /\ has_legal_moves(board, turn)
          <=> \E h \in Row(turn) : Playable(board, turn, h)
    /\ is_end(board, turn)
          <=> (board[12] > 24 \/ board[13] > 24
               \/ ~ has_legal_moves(board, turn))

\* after a move that left the mover's row empty, the side to move has
\* seeds but none of its houses reaches the empty row
C8_Witness ==
    /\ ply > 0
    /\ \E h \in Row(turn) : board[h] = RowEnd(turn) - h /\ board[h] > 0
    /\ \A o \in Row(-turn) : board[o] = 0
    /\ ~ has_legal_moves(board, turn)
    /\ is_end(board, turn)

\* C9: the terminal score agrees with the winner. When is_end(b, t) holds,
\* get_final_score(b) is 10000 exactly when get_winner(b, t) is SOUTH,
\* -10000 exactly when it is NORTH and 0 exactly when it is DRAW.
C9_ScoreAgreesWithWinner ==
    is_end(board, turn) =>
        /\ get_final_score(board) = 10000 <=> get_winner(board, turn) = SOUTH
        /\ get_final_score(board) = -10000 <=> get_winner(board, turn) = NORTH
        /\ get_final_score(board) = 0 <=> get_winner(board, turn) = DRAW

\* a move ends the game in a draw by sweeping the seeds left on the board
C9_Witness ==
    /\ ply > 0
    /\ is_end(board, turn)
    /\ board[12] < 24
    /\ get_winner(board, turn) = DRAW
    /\ get_final_score(board) = 0

----------------------------------------------------------------------------
(* Properties of the engine *)

\* the root is about to read the score of the sibling search that just ended
AtRootScore == root.pc = "search" /\ stack = <<>>

\* C4: compute_best_move never raises and returns one of the root's legal
\* moves whenever the root position has a legal move, whatever the instant
\* at which the abort flag is set.
C4_NeverRaises ==
    (phase = "engine" /\ root.pc = "done"
        /\ xlegal_moves(board, turn) /= <<>>)
    => /\ result.status = "returned"
       /\ result.move \in SeqToSet(xlegal_moves(board, turn))

\* C5: abort fallback. When the root sees the abort flag after a sibling
\* search of an iteration deeper than MIN_DEPTH, the iteration ends with
\* best_move being last_move if last_score >= best_score and the best move
\* of the iteration so far otherwise, the score of the interrupted search
\* is not recorded, and that best_move is the move returned.
C5_AbortFallback ==
    /\ [][(AtRootScore /\ aborted /\ root.depth > MIN_DEPTH
              /\ root' /= root)
          => /\ root'.pc = "after_for"
             /\ root'.best_score = root.best_score
             /\ root'.best_move = IF root.last_score >= root.best_score
                                  THEN root.last_move
                                  ELSE root.best_move]_vars
    /\ [][(root.pc \in {"after_for", "while", "exit"} /\ aborted)
          => root'.best_move = root.best_move]_vars
    /\ [](root.pc = "done" /\ result.status = "returned"
          => result.move = root.best_move)

\* an iteration deeper than MIN_DEPTH was interrupted after its best score
\* had passed the score of the previous iteration
C5_Witness ==
    /\ root.pc = "exit"
    /\ aborted
    /\ root.depth > MIN_DEPTH
    /\ root.idx <= Len(root.moves)
    /\ root.last_score < root.best_score
    /\ root.last_move /= root.best_move

\* C6: abort does not corrupt the best-known root move. At every depth,
\* a root score that comes from a _search call that returned because the
\* abort flag was set is not recorded as best_score and does not make its
\* move the best move.
C6_AbortNeverRecorded ==
    [][(AtRootScore /\ ret.short /\ root' /= root)
       => /\ root'.best_score = root.best_score
          /\ root'.best_move \in {root.best_move, root.last_move}]_vars

\* the positions of the _search calls that have entered the line of play
OnStack == {Position(stack[i]) : i \in {j \in 1 .. Len(stack) :
                                          stack[j].pc /= "enter"}}

\* C10: line-of-play pairing. During compute_best_move the line of play
\* is the supplied history plus the positions of the running _search
\* calls, none of them twice, and it is the supplied history again when
\* compute_best_move returns.
C10_LinePairing ==
    (phase = "engine" /\ root.pc /= "idle") =>
        /\ line = history \cup OnStack
        /\ Cardinality(line) = Cardinality(history)
              + Cardinality({j \in 1 .. Len(stack) : stack[j].pc /= "enter"})
        /\ stack = <<>> => line = history
        /\ root.pc = "done" => stack = <<>>

\* a call interrupted by the abort flag has returned into a running call
\* while a history was supplied
C10_Witness ==
    /\ Len(stack) >= 2
    /\ Top.pc = "wait"
    /\ ret.short
    /\ history /= {}
    /\ line = history \cup OnStack


----------------------------------------------------------------------------
(* Properties of _search *)

\* the position searched by the call that has just returned to the frame
\* on top of the stack
ReturnedPosition ==
    <<compute_board(Top.board, Top.moves[Top.idx]), -Top.turn>>

\* C11 as stated: every call of _search whose position is in the line of
\* play on entry returns turn * get_final_score(board), without expanding
\* the node and without changing the line of play.
C11_Repetition_AnyEntry ==
    [][(stack /= <<>> /\ Top.pc = "enter" /\ Position(Top) \in line
        /\ stack' /= stack)
       => (/\ stack' = Pop
           /\ line' = line
           /\ ret'.value = Top.turn * get_final_score(Top.board))]_vars

\* C11, amended: every call of _search that is entered while the abort
\* flag is not set and whose position is in the line of play on entry
\* returns turn * get_final_score(board), without expanding the node and
\* without changing the line of play.
C11_RepetitionClosure ==
    [][(stack /= <<>> /\ Top.pc = "enter" /\ Position(Top) \in line
        /\ ~ aborted /\ stack' /= stack)
       => (/\ stack' = Pop
           /\ line' = line
           /\ ret' = [value |-> Top.turn * get_final_score(Top.board),
                      short |-> FALSE])]_vars

\* a call has just returned the final score of a repeated position that
\* is not an end position
C11_Witness ==
    /\ stack /= <<>>
    /\ Top.pc = "wait"
    /\ ~ ret.short
    /\ ReturnedPosition \in line
    /\ ~ is_end(ReturnedPosition[1], ReturnedPosition[2])
    /\ ret.value = ReturnedPosition[2] * get_final_score(ReturnedPosition[1])


----------------------------------------------------------------------------
(* Termination of an aborted search *)

\* compute_best_move is running
Running == root.pc \notin {"idle", "done"}

\* one step of the thread that runs compute_best_move
SearchStep ==
    \/ LoopTest
    \/ ForNext
    \/ SearchEnter
    \/ SearchLoop
    \/ SearchResume
    \/ RootGot
    \/ AfterFor
    \/ Exit

\* an upper bound of the steps frame i of the stack can still take once
\* the abort flag is set: a call not yet entered returns at once (1); a
\* frame waiting for such a call, or for a call that returned at once,
\* returns at its next step (1); a frame in its loop starts at most one
\* more call (3); any other waiting frame may go through its loop once (4)
FrameRank(i) ==
    IF stack[i].pc = "enter" THEN 1
    ELSE IF stack[i].pc = "loop" THEN 3
    ELSE IF i < Len(stack)
    THEN (IF stack[i + 1].pc = "enter" THEN 1 ELSE 4)
    ELSE (IF ret.short THEN 1 ELSE 4)

RECURSIVE StackRank(_)
StackRank(i) == IF i = 0 THEN 0 ELSE FrameRank(i) + StackRank(i - 1)

\* an upper bound of the steps compute_best_move can still take once the
\* abort flag is set
Rank ==
    StackRank(Len(stack))
    + (CASE root.pc = "done" -> 0
         [] root.pc = "exit" -> 1
         [] root.pc = "while" -> 2
         [] root.pc = "after_for" -> 3
         [] root.pc = "for" -> 4 + 3 * (Len(root.moves) - root.idx + 1)
         [] root.pc = "search" -> 5 + 3 * (Len(root.moves) - root.idx)
         [] OTHER -> 0)

\* C12: once the abort flag is set while compute_best_move is running,
\* the flag stays set until the call has ended, every _search call
\* entered afterwards returns at once without expanding its node, the
\* while loop starts no new iteration, and compute_best_move ends after
\* finitely many further steps: the running thread can always take a
\* step and each of its steps decreases a bound on the steps that remain.
C12_AbortTerminates ==
    /\ [][(aborted /\ Running) => aborted']_vars
    /\ [][(aborted /\ stack /= <<>> /\ Top.pc = "enter" /\ stack' /= stack)
          => (/\ stack' = Pop
              /\ line' = line
              /\ ret' = [value |-> -INFINITY, short |-> TRUE])]_vars
    /\ [][(aborted /\ root.pc = "while" /\ root' /= root)
          => root'.pc = "exit"]_vars
    /\ [][(aborted /\ Running /\ <<root, stack>>' /= <<root, stack>>)
          => (Rank' < Rank /\ Rank' >= 0)]_vars
    /\ [](Running => ENABLED SearchStep)

\* a call entered after the flag was set has returned at once, three
\* calls deep in an iteration above the minimal depth
C12_Witness ==
    /\ aborted
    /\ root.pc = "search"
    /\ root.depth > MIN_DEPTH
    /\ Len(stack) >= 3
    /\ Top.pc = "wait"
    /\ ret.short


----------------------------------------------------------------------------
(* The timer and the calls of compute_best_move *)

\* C13 as stated, for calls that return a move: the timer started by a
\* call of compute_best_move runs stop_computation only while that call
\* is running, never after it has returned, so that it cannot abort a
\* later call on the same engine.
C13_TimerIsolation ==
    [][(timer /= "fired" /\ timer' = "fired" /\ result.status /= "IndexError"
        /\ result.status /= "UnboundLocalError")
       => Running]_vars


----------------------------------------------------------------------------
(* The move returned by an interrupted search *)

\* compute_best_move has returned after leaving, on an abort, an iteration
\* that followed a completed one; last_move and last_score still are the
\* best move and score of the last completed iteration
InterruptedAboveMinimum ==
    /\ root.pc = "done"
    /\ result.status = "returned"
    /\ aborted
    /\ root.depth > MIN_DEPTH
    /\ root.depth >= cfg_depth
    /\ root.idx <= Len(root.moves)

\* C14 as stated: when the abort flag is set during an iteration that
\* follows at least one completed iteration, the move returned is the
\* best move of the last completed iteration.
C14_ReturnsLastCompleted ==
    InterruptedAboveMinimum => result.move = root.last_move

\* C14, amended: when the abort flag is set during an iteration that
\* follows at least one completed iteration, the move returned is the
\* best move of the last completed iteration, unless the interrupted
\* iteration had already found a move whose score is strictly above the
\* best score of the last completed iteration; then that move is returned.
C14_AbortPreservesBest ==
    InterruptedAboveMinimum
    => \/ result.move = root.last_move
       \/ root.best_score > root.last_score /\ result.move = root.best_move

\* the interrupted iteration had searched at least one root move and the
\* best move of the last completed iteration, another one than the first
\* root move, was returned
C14_Witness ==
    /\ InterruptedAboveMinimum
    /\ root.idx > 1
    /\ root.last_score >= root.best_score
    /\ result.move = root.last_move
    /\ root.last_move /= root.moves[1]


----------------------------------------------------------------------------
(* compute_board on the board that holds one seed in house 5 and one in   *)
(* house 6                                                                *)

\* C15 as stated: on that board compute_board(b, 5) sows the seed into
\* house 6 and gathers the two seeds: every house is empty, SOUTH's store
\* holds 2 and NORTH's store 0.
C15_SeedsGathered ==
    (phase = "moved" /\ prev = ImmediateCapture /\ move = 5)
    => board = [i \in 0 .. 13 |-> IF i = 12 THEN 2 ELSE 0]

\* C15, amended: on that board compute_board(b, 5) sows the seed into
\* house 6, which then holds 2, and gathers nothing, because the capture
\* would leave NORTH's row empty: the other houses are empty and both
\* stores hold 0.
C15_ImmediateCapture ==
    (phase = "moved" /\ prev = ImmediateCapture /\ move = 5)
    => board = [i \in 0 .. 13 |-> IF i = 6 THEN 2 ELSE 0]

\* the move has been played on that board
C15_Witness ==
    /\ phase = "moved"
    /\ prev = ImmediateCapture
    /\ move = 5
    /\ board[5] = 0
    /\ board[6] = 2


----------------------------------------------------------------------------
(* get_final_board *)

\* C16: get_final_board returns its argument when a store holds more than
\* 24 seeds or both stores hold 24; otherwise it returns the board whose
\* houses are empty and whose stores have received the seeds of their own
\* rows. On the 48-seed boards it preserves the total and applying it to
\* its own result changes nothing.
C16_FinalBoard ==
    phase = "final" =>
        /\ (prev[12] > 24 \/ prev[13] > 24 \/ (prev[12] = 24 /\ prev[13] = 24))
           => board = prev
        /\ ~ (prev[12] > 24 \/ prev[13] > 24 \/ (prev[12] = 24 /\ prev[13] = 24))
           => /\ \A h \in Houses : board[h] = 0
              /\ board[12] = prev[12] + SouthSum(prev)
              /\ board[13] = prev[13] + NorthSum(prev)
        /\ BoardSum(prev) = Seeds
        /\ BoardSum(board) = Seeds
        /\ get_final_board(board) = board

\* the rows of a board have been gathered and each store holds 24
C16_Witness ==
    /\ phase = "final"
    /\ board /= prev
    /\ board[12] = 24
    /\ board[13] = 24


----------------------------------------------------------------------------
(* The setters of the engine *)

\* C17: after any sequence of set_depth calls with integer arguments the
\* configured depth is even and at least MIN_DEPTH, as the initial depth
\* is; set_depth stores MIN_DEPTH for a depth below it, an even depth as
\* it is and an odd depth plus one.
C17_DepthEvenAtLeastMinimum ==
    /\ cfg_depth % 2 = 0
    /\ cfg_depth >= MIN_DEPTH
    /\ InitialDepth % 2 = 0 /\ InitialDepth >= MIN_DEPTH
    /\ \A depth \in (-MaxConfig) .. MaxConfig :
          set_depth(depth) = IF depth < 4 THEN 4
                             ELSE IF depth % 2 = 0 THEN depth
                             ELSE depth + 1

\* set_depth has replaced the initial depth by one above the minimum
C17_Witness ==
    /\ phase = "config"
    /\ cfg_depth = MIN_DEPTH + 4

\* C18 as stated: set_move_time stores positive values only; a value that
\* is not positive is rejected and the configured move time stays as it
\* was, so that the configured move time is always positive.
C18_OnlyPositiveStored == move_time > 0


----------------------------------------------------------------------------
(* Oware.to_moves *)

\* a non-empty string of house letters whose neighbours belong to
\* different rows
Alternating(s) ==
    /\ Len(s) >= 1
    /\ \A i \in 1 .. Len(s) : s[i] \in Upper \cup Lower
    /\ \A i \in 1 .. Len(s) - 1 : (s[i] \in Upper) /= (s[i + 1] \in Upper)

\* C19 as stated: to_moves raises the invalid-notation error on every
\* string that is not a non-empty sequence of house letters alternating
\* between A-F and a-f, and returns the tuple of house indices on the
\* alternating sequences.
C19_ToMovesAlternating ==
    phase = "parsed" =>
        IF Alternating(notation)
        THEN /\ parsed.status = "returned"
             /\ parsed.moves = [i \in 1 .. Len(notation) |->
                                  IF notation[i] \in Upper
                                  THEN notation[i] - 65
                                  ELSE notation[i] - 91]
        ELSE parsed.status = "ValueError"


----------------------------------------------------------------------------
(* The move chosen by an iteration and the exhaustive search *)

SetMax(S) == CHOOSE x \in S : \A y \in S : y <= x

\* the negamax value of position (b, t) searched to the given depth
\* without a window, with the terminal test, the repetition rule, the
\* leaf evaluation and the move application of _search; ln is the line
\* of play on entry
RECURSIVE Negamax(_, _, _, _)
Negamax(b, t, depth, ln) ==
    IF is_end(b, t) \/ <<b, t>> \in ln THEN t * get_final_score(b)
    ELSE IF depth = 0 THEN t * get_score(b)
    ELSE SetMax({-Negamax(compute_board(b, m), -t, depth - 1,
                          ln \cup {<<b, t>>}) :
                    m \in SeqToSet(xlegal_moves(b, t))})

\* the exhaustive value of root move m in the current iteration
RootValue(m) ==
    -Negamax(compute_board(board, m), -turn, root.depth, history)

\* C20: when no abort has occurred, the best move held at the end of a
\* completed iteration is a root move whose exhaustive negamax value at
\* the depth of the iteration is maximal among the root moves.
C20_RootSoundness ==
    (root.pc = "after_for" /\ ~ aborted /\ root.idx > Len(root.moves))
    => /\ root.best_move \in SeqToSet(root.moves)
       /\ \A m \in SeqToSet(root.moves) :
             RootValue(root.best_move) >= RootValue(m)

\* an iteration above the minimal depth has ended without abort on a move
\* that is not the first root move and is strictly better than it
C20_Witness ==
    /\ root.pc = "after_for"
    /\ ~ aborted
    /\ root.idx > Len(root.moves)
    /\ root.depth > MIN_DEPTH
    /\ root.best_move /= root.moves[1]
    /\ RootValue(root.best_move) > RootValue(root.moves[1])


----------------------------------------------------------------------------
(* The depths of the iterations *)

\* C21: compute_best_move starts at MIN_DEPTH; an iteration runs at a
\* depth MIN_DEPTH, MIN_DEPTH + 2, ... that never exceeds the configured
\* depth; without abort an iteration searches every root move, is
\* followed by the iteration two plies deeper while its depth is below
\* the configured depth, and the call stops right after the iteration at
\* the configured depth and returns the best move of that iteration.
C21_Progression ==
    /\ [][(root.pc = "idle" /\ root'.pc /= "idle")
          => root'.depth = MIN_DEPTH]_vars
    /\ [](root.pc \in {"for", "search", "after_for"}
          => /\ root.depth >= MIN_DEPTH
             /\ root.depth <= cfg_depth
             /\ (root.depth - MIN_DEPTH) % 2 = 0)
    /\ []((root.pc = "after_for" /\ ~ aborted)
          => root.idx = Len(root.moves) + 1)
    /\ [][(root.pc = "after_for" /\ root' /= root)
          => IF root.depth = cfg_depth
             THEN root'.pc = "exit" /\ root'.depth = root.depth
             ELSE root'.pc = "while" /\ root'.depth = root.depth + 2]_vars
    /\ [][(root.pc = "while" /\ root' /= root)
          => root'.depth = root.depth]_vars
    /\ []((root.pc = "done" /\ ~ aborted /\ result.status = "returned")
          => /\ root.depth = cfg_depth
             /\ root.idx = Len(root.moves) + 1
             /\ result.move = root.best_move
             /\ \A m \in SeqToSet(root.moves) :
                   RootValue(result.move) >= RootValue(m))

\* a call without abort has returned after the iteration at a configured
\* depth above the minimum
C21_Witness ==
    /\ root.pc = "done"
    /\ ~ aborted
    /\ result.status = "returned"
    /\ cfg_depth > MIN_DEPTH
    /\ root.depth = cfg_depth
    /\ result.move = root.best_move


----------------------------------------------------------------------------
(* The order of the moves yielded by xlegal_moves *)

\* the group of house m in the order of the claim: 0 for a capture; 1 for
\* a move that does not capture from a house holding 1 or 2 seeds, or any
\* move that does not capture when the opponent's row is empty; 2 for a
\* move that does not capture from a house holding 3 or more seeds
MoveGroup(b, t, m) ==
    IF is_capture(b, m) THEN 0
    ELSE IF \A o \in Row(-t) : b[o] = 0 THEN 1
    ELSE IF b[m] < 3 THEN 1
    ELSE 2

\* C22: in the sequence yielded by xlegal_moves(b, t) the captures come
\* first, from the highest house to the lowest; when the opponent's row
\* is not empty they are followed by the other moves from houses holding
\* 1 or 2 seeds, from the lowest house to the highest, and then by the
\* other moves from houses holding 3 or more seeds, from the lowest house
\* to the highest; when the opponent's row is empty they are followed by
\* the other moves, which all reach that row, from the lowest house to
\* the highest.
C22_MoveOrdering ==
    LET moves == xlegal_moves(board, turn)
    IN  /\ \A i, j \in 1 .. Len(moves) :
              i < j =>
                /\ MoveGroup(board, turn, moves[i])
                      <= MoveGroup(board, turn, moves[j])
                /\ MoveGroup(board, turn, moves[i])
                      = MoveGroup(board, turn, moves[j])
                   => IF MoveGroup(board, turn, moves[i]) = 0
                      THEN moves[i] > moves[j]
                      ELSE moves[i] < moves[j]
        /\ \A i \in 1 .. Len(moves) :
              /\ board[moves[i]] > 0
              /\ (\A o \in Row(-turn) : board[o] = 0)
                    => board[moves[i]] > RowEnd(turn) - moves[i]

\* two captures were yielded before another move and the second one has
\* been played
C22_Witness ==
    LET moves == xlegal_moves(prev, -turn)
    IN  /\ phase = "position"
        /\ ply > 0
        /\ Len(moves) >= 3
        /\ move = moves[2]
        /\ is_capture(prev, moves[1])
        /\ is_capture(prev, moves[2])
        /\ moves[1] > moves[2]
        /\ ~ is_capture(prev, moves[3])


----------------------------------------------------------------------------
(* The side to move keeps seeds *)

\* C23: no legal move leaves the opponent's row empty; hence after a
\* legal move the side to move holds at least one seed in its own row, and
\* it has no legal move only if the opponent's row is empty and none of
\* its houses holds enough seeds to reach that row.
C23_MoverKeepsSeeds ==
    /\ LET moves == xlegal_moves(board, turn)
       IN  \A i \in 1 .. Len(moves) :
               \E o \in Row(-turn) : compute_board(board, moves[i])[o] > 0
    /\ (phase \in {"position", "game"} /\ ply > 0) =>
          /\ \E h \in Row(turn) : board[h] > 0
          /\ ~ has_legal_moves(board, turn) =>
                /\ \A o \in Row(-turn) : board[o] = 0
                /\ \A h \in Row(turn) : board[h] <= RowEnd(turn) - h

\* a legal move has sown its last seed into a house whose capture would
\* have emptied the row of the side now to move, and that side, which
\* keeps its seeds, cannot reach the empty row of the mover
C23_Witness ==
    /\ phase = "position"
    /\ ply > 0
    /\ NaiveCapture(prev, move) /= Sow(prev, move)
    /\ \E h \in Row(turn) : board[h] > 0
    /\ \A o \in Row(-turn) : board[o] = 0
    /\ ~ has_legal_moves(board, turn)


----------------------------------------------------------------------------
(* xlegal_moves and xdisruptive_moves *)

\* C24: on a 48-seed board xlegal_moves(b, t) yields every playable house
\* of t's row (it holds seeds and, if the opponent's row is empty, reaches
\* it) and nothing else, each house once; it yields nothing exactly when
\* has_legal_moves(b, t) is false; and xdisruptive_moves(b, t) is exactly
\* its leading run of capturing moves.
C24_CompleteNoDuplicates ==
    LET moves == xlegal_moves(board, turn)
        captures == xdisruptive_moves(board, turn)
    IN  /\ BoardSum(board) = Seeds
        /\ \A h \in Houses :
              Playable(board, turn, h) <=> h \in SeqToSet(moves)
        /\ \A i, j \in 1 .. Len(moves) : i /= j => moves[i] /= moves[j]
        /\ moves = <<>> <=> ~ has_legal_moves(board, turn)
        /\ Len(captures) <= Len(moves)
        /\ captures = SubSeq(moves, 1, Len(captures))
        /\ \A i \in 1 .. Len(moves) :
              is_capture(board, moves[i]) <=> i <= Len(captures)

\* one of several captures yielded by xdisruptive_moves has been played on
\* a board where xlegal_moves yielded other moves too and skipped an empty
\* house
C24_Witness ==
    LET moves == xlegal_moves(prev, -turn)
        captures == xdisruptive_moves(prev, -turn)
    IN  /\ phase = "position"
        /\ ply > 0
        /\ captures /= <<>>
        /\ Len(moves) > Len(captures)
        /\ move \in SeqToSet(captures)
        /\ Len(captures) >= 2
        /\ \E h \in Row(-turn) : prev[h] = 0


----------------------------------------------------------------------------
(* The frame of a move *)

\* what compute_board(b, m) = nb keeps for the side that owns house m
MoveFrame(b, m, nb) ==
    /\ nb[Store(-Side(m))] = b[Store(-Side(m))]
    /\ nb[Store(Side(m))] >= b[Store(Side(m))]
    /\ nb[m] = 0
    /\ \A h \in Row(Side(m)) \ {m} : nb[h] >= b[h]

\* C25: for every board b and house m with b[m] > 0, compute_board(b, m)
\* leaves the opponent's store unchanged, never decreases the mover's store,
\* sets house m to 0 (also when 12 or more seeds are sown) and never
\* decreases another house of the mover's row; so no step of a sequence of
\* moves decreases a store. The frame is stated of the move just played and
\* of every house with seeds of the board that the move has produced.
C25_MoveFrame ==
    /\ [](ply > 0 =>
             \A m \in Houses :
                board[m] > 0 => MoveFrame(board, m, compute_board(board, m)))
    /\ []((ply > 0 /\ phase /= "final") => MoveFrame(prev, move, board))
    /\ [][board'[12] >= board[12] /\ board'[13] >= board[13]]_vars

\* a house holding 12 or more seeds has been played: it is empty, another
\* house of the mover's row has grown and the move has captured
C25_Witness ==
    /\ phase = "moved"
    /\ ply > 0
    /\ prev[move] >= 12
    /\ board = compute_board(prev, move)
    /\ board[move] = 0
    /\ \E h \in Row(-turn) \ {move} : board[h] > prev[h]
    /\ board[Store(-turn)] > prev[Store(-turn)]
    /\ board[Store(turn)] = prev[Store(turn)]

====
